---- MODULE Spec2Model ----
(***************************************************************************)
(* pyrisccore: the bit-field algebra (Slice, Field, Value) of              *)
(* pyrisccore/vm/forms.                                                    *)
(*                                                                         *)
(* Python integers are unbounded.  A non-negative Python integer is        *)
(* represented by the finite set of the positions of its 1-bits (bit 0 is  *)
(* the least significant), so that 0 is {}, 1 is {0} and 0b110 is {1, 2}.  *)
(* Bit positions, slice bounds and lengths are ordinary integers.          *)
(***************************************************************************)
EXTENDS Integers, FiniteSets, Sequences, TLC

(***************************************************************************)
(* Bounds of the model.                                                    *)
(***************************************************************************)
\* Slice and Field: slice bounds and the 1-bits of the integers passed in
\* range over 0..MaxBit, the top bit of the word and the bit above it
MaxBit == 3
\* Value: the slices of its fields and the 1-bits of the integers passed in
\* range over 0..MaxValueBit, next to the whole-word slice and the top bit
MaxValueBit == 2
\* a Value is built from at most MaxFields fields
MaxFields == 2

\* the largest number of general purpose registers of a register file
MaxXlen == 1

\* the largest of the small values stored into a register
MaxRegValue == 2

\* the largest number of instruction classes registered with a Decoder
MaxClasses == 2

\* the largest value kept in a frozendict
MaxDictValue == 1

(***************************************************************************)
(* Python's integer operators on the bit-set representation.               *)
(***************************************************************************)
\* the integer 1
One == {0}

\* x << k
Shl(x, k) == {b + k : b \in x}

\* x >> k
Shr(x, k) == {b - k : b \in {c \in x : c >= k}}

\* x & y
And(x, y) == x \cap y

\* x | y
Or(x, y) == x \cup y

\* ~m & a  (a non-negative: the infinite sign bits of ~m are cut off by a)
NotAnd(m, a) == a \ m

\* position of the lowest 1-bit of x (x # 0)
LowBit(x) == CHOOSE b \in x : \A c \in x : b <= c

\* position of the highest 1-bit of x (x # 0)
HighBit(x) == CHOOSE b \in x : \A c \in x : c <= b

\* x - 1 for x > 0: the borrow clears the lowest 1-bit and sets every bit below it
Dec(x) == (x \ {LowBit(x)}) \cup (0 .. (LowBit(x) - 1))

\* int.bit_length()
bit_length(x) == IF x = {} THEN 0 ELSE HighBit(x) + 1

(***************************************************************************)
(* pyrisccore/misc.py                                                      *)
(***************************************************************************)
\* mask without the decrement: (1 << length) << lsb
mask_no_dec(lsb, length) == Shl(Shl(One, length), lsb)

\* mask(lsb, length) = ((1 << length) - 1) << lsb
mask(lsb, length) == Shl(Dec(Shl(One, length)), lsb)

(***************************************************************************)
(* pyrisccore/vm/forms/word.py                                             *)
(***************************************************************************)
XLEN == 32

\* WORD = Word(xlen = 32): xlen and mask = (1 << xlen) - 1
WORD == [xlen |-> XLEN, mask |-> Dec(Shl(One, XLEN))]

(***************************************************************************)
(* pyrisccore/vm/forms/slice.py                                            *)
(***************************************************************************)
\* Slice(start, stop) refusing start = stop as well
Slice_post_init_strict(start, stop) ==
    IF start < 0 \/ stop < 0
    THEN [ok |-> FALSE, err |-> "negative", start |-> start, stop |-> stop,
          length |-> 0, mask |-> {}]
    ELSE IF start >= stop
    THEN [ok |-> FALSE, err |-> "order", start |-> start, stop |-> stop,
          length |-> 0, mask |-> {}]
    ELSE [ok |-> TRUE, err |-> "none", start |-> start, stop |-> stop,
          length |-> stop - start + 1,
          mask |-> mask(start, stop - start + 1)]

\* Slice(start, stop): the two checks of __post_init__, then length and mask.
\* A failed construction raises PyrisccoreAssertion and yields no object:
\* ok is FALSE and err says which check raised.
Slice_post_init(start, stop) ==
    IF start < 0 \/ stop < 0
    THEN [ok |-> FALSE, err |-> "negative", start |-> start, stop |-> stop,
          length |-> 0, mask |-> {}]
    ELSE IF start > stop
    THEN [ok |-> FALSE, err |-> "order", start |-> start, stop |-> stop,
          length |-> 0, mask |-> {}]
    ELSE [ok |-> TRUE, err |-> "none", start |-> start, stop |-> stop,
          length |-> stop - start + 1,
          mask |-> mask(start, stop - start + 1)]

\* Slice.get(source) = (source & self.mask) >> self.start
Slice_get(s, source) == Shr(And(source, s.mask), s.start)

\* Slice.set with the clear-mask one bit too short
Slice_set_short(s, value, destination) ==
    Or(And(destination, NotAnd(s.mask, mask(0, bit_length(destination) - 1))),
       Shl(value, s.start))

\* Slice.set(value, destination) =
\*   destination & (~self.mask & mask(0, destination.bit_length())) | value << self.start
Slice_set(s, value, destination) ==
    Or(And(destination, NotAnd(s.mask, mask(0, bit_length(destination)))),
       Shl(value, s.start))

(***************************************************************************)
(* pyrisccore/vm/forms/field.py: Field                                     *)
(***************************************************************************)
\* the absent destination of a Field (destination = None)
None == [ok |-> FALSE, err |-> "None", start |-> 0, stop |-> 0,
         length |-> 0, mask |-> {}]

\* Field._validate_slice comparing with > instead of >=
Field_validate_slice_off_by_one(s) ==
    IF s.stop > WORD.xlen \/ s.start > WORD.xlen THEN "exceeds_xlen"
    ELSE IF s.start < 0 \/ s.stop < 0 THEN "negative"
    ELSE "none"

\* Field._validate_slice(s): the check that raises, or "none".  The slice
\* argument carries integer bounds and step = None, as slice(start, stop)
\* does (the class Slice declares no step), so the checks of start is None
\* and of step never raise.
Field_validate_slice(s) ==
    IF s.stop >= WORD.xlen \/ s.start >= WORD.xlen THEN "exceeds_xlen"
    ELSE IF s.start < 0 \/ s.stop < 0 THEN "negative"
    ELSE "none"

\* Field.mask(lsb, bit_length)
Field_mask(lsb, length) ==
    IF length <= 0 THEN {} ELSE Shl(Dec(Shl(One, length)), lsb)

\* a Field whose construction raised
FieldError(e, source, destination) ==
    [ok |-> FALSE, err |-> e, source |-> source, destination |-> destination,
     source_mask |-> {}, destination_mask |-> {}, size |-> 0]

\* Field.__post_init__ without the comparison of the two sizes
Field_post_init_any_size(source, destination) ==
    LET size_src == source.stop - source.start + 1
        size_dst == destination.stop - destination.start + 1
    IN  IF Field_validate_slice(source) # "none"
        THEN FieldError(Field_validate_slice(source), source, destination)
        ELSE IF destination = None
        THEN [ok |-> TRUE, err |-> "none", source |-> source,
              destination |-> None,
              source_mask |-> Field_mask(source.start, size_src),
              destination_mask |-> {}, size |-> size_src]
        ELSE IF Field_validate_slice(destination) # "none"
        THEN FieldError(Field_validate_slice(destination), source, destination)
        ELSE [ok |-> TRUE, err |-> "none", source |-> source,
              destination |-> destination,
              source_mask |-> Field_mask(source.start, size_src),
              destination_mask |-> Field_mask(destination.start, size_dst),
              size |-> size_src]

\* Field(source, name, destination): __post_init__.  destination_mask stays
\* None (here {}) when there is no destination.
Field_post_init(source, destination) ==
    LET size_src == source.stop - source.start + 1
        size_dst == destination.stop - destination.start + 1
    IN  IF Field_validate_slice(source) # "none"
        THEN FieldError(Field_validate_slice(source), source, destination)
        ELSE IF destination = None
        THEN [ok |-> TRUE, err |-> "none", source |-> source,
              destination |-> None,
              source_mask |-> Field_mask(source.start, size_src),
              destination_mask |-> {}, size |-> size_src]
        ELSE IF Field_validate_slice(destination) # "none"
        THEN FieldError(Field_validate_slice(destination), source, destination)
        ELSE IF size_src # size_dst
        THEN FieldError("size", source, destination)
        ELSE [ok |-> TRUE, err |-> "none", source |-> source,
              destination |-> destination,
              source_mask |-> Field_mask(source.start, size_src),
              destination_mask |-> Field_mask(destination.start, size_dst),
              size |-> size_src]

\* Field(Slice(..), name, Slice(..)), as the fields of rv32i.py are written:
\* the Slice arguments are constructed first, and a Slice that raises leaves
\* no Field
Field_of(source, destination) ==
    IF ~source.ok
    THEN FieldError(IF source.err = "negative" THEN "slice_negative"
                    ELSE "slice_order", source, destination)
    ELSE IF destination # None /\ ~destination.ok
    THEN FieldError(IF destination.err = "negative" THEN "slice_negative"
                    ELSE "slice_order", source, destination)
    ELSE Field_post_init(source, destination)

\* Field._read without the shift down to bit 0
Field__read_unshifted(source, m, lsb) == And(source, m)

\* Field._read(source, mask, lsb) = (source & mask) >> lsb
Field__read(source, m, lsb) == Shr(And(source, m), lsb)

\* Field._write that does not clear the bits it is about to write
Field__write_noclear(value, m, lsb, destination, word) ==
    Or(destination, Shl(value, lsb))

\* Field._write(value, mask, lsb, destination, word) =
\*   (destination & (~mask & word.mask)) | (value << lsb)
Field__write(value, m, lsb, destination, word) ==
    Or(And(destination, NotAnd(m, word.mask)), Shl(value, lsb))

\* Field.read that never re-positions the value at the destination
Field_read_raw(f, source) ==
    Field__read(source, f.source_mask, f.source.start)

\* Field.read(source)
Field_read(f, source) ==
    LET value == Field__read(source, f.source_mask, f.source.start)
    IN  IF f.destination = None
        THEN value
        ELSE Field__write(value, f.destination_mask, f.destination.start, {}, WORD)

\* Field.write taking the bits of the value under the source mask
Field_write_from_source(f, value, destination) ==
    LET v == IF f.destination # None
             THEN Field__read(value, f.source_mask, f.source.start)
             ELSE value
    IN  Field__write(v, f.source_mask, f.source.start, destination, WORD)

\* Field.write(value, destination)
Field_write(f, value, destination) ==
    LET v == IF f.destination # None
             THEN Field__read(value, f.destination_mask, f.destination.start)
             ELSE value
    IN  Field__write(v, f.source_mask, f.source.start, destination, WORD)

(***************************************************************************)
(* pyrisccore/vm/forms/field.py: bit_count and Value                       *)
(***************************************************************************)
\* bit_count(i): count += i & 0x1; i >>= 1 while i != 0
RECURSIVE bit_count(_)
bit_count(i) ==
    IF i = {} THEN 0
    ELSE (IF And(i, One) = One THEN 1 ELSE 0) + bit_count(Shr(i, 1))

\* sum(f.size for f in self.fields)
RECURSIVE SumSizes(_)
SumSizes(fields) ==
    IF fields = <<>> THEN 0 ELSE Head(fields).size + SumSizes(Tail(fields))

\* a Value whose construction raised; at is the position (from 1) of the
\* Field the error message names, 0 when it names none
ValueError(e, at, fields) ==
    [ok |-> FALSE, err |-> e, at |-> at, fields |-> fields,
     source_mask |-> {}, destination_mask |-> {}]

\* the loop over several fields that checks only the source bits
RECURSIVE Value_masks_source_only(_, _, _, _, _, _)
Value_masks_source_only(fields, i, source_mask, destination_mask, source_mask_bit_count, destination_mask_bits_count) ==
    IF i > Len(fields)
    THEN [ok |-> TRUE, err |-> "none", at |-> 0, fields |-> fields,
          source_mask |-> source_mask, destination_mask |-> destination_mask]
    ELSE LET smask == Or(source_mask, fields[i].source_mask)
             dmask == Or(destination_mask, fields[i].destination_mask)
         IN  IF bit_count(smask) = source_mask_bit_count
             THEN ValueError("overlapping_source", i, fields)
             ELSE Value_masks_source_only(fields, i + 1, smask, dmask,
                                          bit_count(smask), bit_count(dmask))

\* the loop of Value.__post_init__ over several fields, from the i-th field
\* on: the cumulative masks, and the check that each grew
RECURSIVE Value_masks(_, _, _, _, _, _)
Value_masks(fields, i, source_mask, destination_mask, source_mask_bit_count, destination_mask_bits_count) ==
    IF i > Len(fields)
    THEN [ok |-> TRUE, err |-> "none", at |-> 0, fields |-> fields,
          source_mask |-> source_mask, destination_mask |-> destination_mask]
    ELSE LET smask == Or(source_mask, fields[i].source_mask)
             dmask == Or(destination_mask, fields[i].destination_mask)
         IN  IF bit_count(smask) = source_mask_bit_count
             THEN ValueError("overlapping_source", i, fields)
             ELSE IF bit_count(dmask) = destination_mask_bits_count
             THEN ValueError("overlapping_destination", i, fields)
             ELSE Value_masks(fields, i + 1, smask, dmask,
                              bit_count(smask), bit_count(dmask))
\* Value.__post_init__ asking a destination of a single Field too
Value_post_init_destination_required(fields) ==
    IF fields = <<>>
    THEN ValueError("missing_fields", 0, fields)
    ELSE IF SumSizes(fields) > WORD.xlen
    THEN ValueError("exceeds_xlen", 0, fields)
    ELSE IF Len(fields) >= 1 /\ \E i \in 1 .. Len(fields) : fields[i].destination = None
    THEN ValueError("missing_destination",
                    CHOOSE i \in 1 .. Len(fields) :
                        /\ fields[i].destination = None
                        /\ \A j \in 1 .. (i - 1) : fields[j].destination # None,
                    fields)
    ELSE IF Len(fields) = 1
    THEN [ok |-> TRUE, err |-> "none", at |-> 0, fields |-> fields,
          source_mask |-> fields[1].source_mask,
          destination_mask |->
              IF fields[1].destination = None
              THEN Field_mask(0, fields[1].size)
              ELSE fields[1].destination_mask]
    ELSE Value_masks(fields, 1, {}, {}, 0, 0)

\* Value(fields): __post_init__
Value_post_init(fields) ==
    IF fields = <<>>
    THEN ValueError("missing_fields", 0, fields)
    ELSE IF SumSizes(fields) > WORD.xlen
    THEN ValueError("exceeds_xlen", 0, fields)
    ELSE IF Len(fields) > 1 /\ \E i \in 1 .. Len(fields) : fields[i].destination = None
    THEN ValueError("missing_destination",
                    CHOOSE i \in 1 .. Len(fields) :
                        /\ fields[i].destination = None
                        /\ \A j \in 1 .. (i - 1) : fields[j].destination # None,
                    fields)
    ELSE IF Len(fields) = 1
    THEN [ok |-> TRUE, err |-> "none", at |-> 0, fields |-> fields,
          source_mask |-> fields[1].source_mask,
          destination_mask |->
              IF fields[1].destination = None
              THEN Field_mask(0, fields[1].size)
              ELSE fields[1].destination_mask]
    ELSE Value_masks(fields, 1, {}, {}, 0, 0)

\* the loop of Value.read from the i-th field on: value |= f.read(source)
RECURSIVE Value_read_from(_, _, _, _)
Value_read_from(fields, i, source, value) ==
    IF i > Len(fields) THEN value
    ELSE Value_read_from(fields, i + 1, source,
                         Or(value, Field_read(fields[i], source)))

\* Value.read that stops after the first field
Value_read_first(val, source) == Field_read(val.fields[1], source)

\* Value.read(source)
Value_read(val, source) == Value_read_from(val.fields, 1, source, {})

\* the loop of Value.write from the i-th field on:
\* destination |= f.write(value, destination)
RECURSIVE Value_write_from(_, _, _, _)
Value_write_from(fields, i, value, destination) ==
    IF i > Len(fields) THEN destination
    ELSE Value_write_from(fields, i + 1, value,
                          Or(destination, Field_write(fields[i], value, destination)))

\* Value.write that stops after the first field
Value_write_first(val, value, destination) ==
    Or(destination, Field_write(val.fields[1], value, destination))

\* Value.write(value, destination)
Value_write(val, value, destination) ==
    Value_write_from(val.fields, 1, value, destination)

(***************************************************************************)
(* registers.py: class RegisterFile.  A register value is a small Int; the *)
(* list self.file is a sequence, position p of the list being file[p + 1]. *)
(***************************************************************************)
\* f"x{n}"
XName(n) == <<"x0", "x1", "x2", "x3", "x4", "x5", "x6", "x7">>[n + 1]

\* RegisterFile.__init__ naming the general purpose registers with
\* range(1, xlen)
RegisterFile_init_short_range(xlen) ==
    LET file == <<0>> \o [n \in 1 .. xlen |-> 0] \o <<0>>
    IN  [made |-> TRUE, xlen |-> xlen, file |-> file,
         registers |->
             [r \in {"x0"} \cup {XName(n) : n \in 1 .. (xlen - 1)} \cup {"pc"} |->
                 IF r = "x0" THEN 0
                 ELSE IF r = "pc" THEN Len(file) - 1
                 ELSE CHOOSE n \in 1 .. xlen : XName(n) = r]]

\* RegisterFile(xlen): __init__
RegisterFile_init(xlen) ==
    LET file == <<0>> \o [n \in 1 .. xlen |-> 0] \o <<0>>
    IN  [made |-> TRUE, xlen |-> xlen, file |-> file,
         registers |->
             [r \in {"x0"} \cup {XName(n) : n \in 1 .. xlen} \cup {"pc"} |->
                 IF r = "x0" THEN 0
                 ELSE IF r = "pc" THEN Len(file) - 1
                 ELSE CHOOSE n \in 1 .. xlen : XName(n) = r]]

\* the outcome of a call: the value returned, or the KeyError raised by
\* self.registers[register]
RegisterOutcome(err, result) == [err |-> err, result |-> result]

\* RegisterFile.load without the special case of x0
RegisterFile_load_plain(r, register) ==
    IF register \notin DOMAIN r.registers
    THEN RegisterOutcome("KeyError", 0)
    ELSE RegisterOutcome("none", r.file[r.registers[register] + 1])

\* RegisterFile.load(register)
RegisterFile_load(r, register) ==
    IF register = "x0"
    THEN RegisterOutcome("none", 0)
    ELSE IF register \notin DOMAIN r.registers
    THEN RegisterOutcome("KeyError", 0)
    ELSE RegisterOutcome("none", r.file[r.registers[register] + 1])

\* RegisterFile.store writing the position before the register's as well
RegisterFile_store_fill(r, register, value) ==
    IF register \notin DOMAIN r.registers
    THEN [rf |-> r, out |-> RegisterOutcome("KeyError", 0)]
    ELSE LET pos == r.registers[register]
             old == r.file[pos + 1]
         IN  [rf |-> [r EXCEPT !.file = [p \in 1 .. Len(r.file) |->
                                            IF p >= pos /\ p <= pos + 1 THEN value
                                            ELSE r.file[p]]],
              out |-> RegisterOutcome("none", old)]

\* RegisterFile.store that leaves the file alone for x0
RegisterFile_store_skip_x0(r, register, value) ==
    IF register \notin DOMAIN r.registers
    THEN [rf |-> r, out |-> RegisterOutcome("KeyError", 0)]
    ELSE LET pos == r.registers[register]
             old == r.file[pos + 1]
         IN  [rf |-> IF register = "x0" THEN r
                     ELSE [r EXCEPT !.file[pos + 1] = value],
              out |-> RegisterOutcome("none", old)]

\* RegisterFile.store(register, value): the file after the call and the
\* outcome
RegisterFile_store(r, register, value) ==
    IF register \notin DOMAIN r.registers
    THEN [rf |-> r, out |-> RegisterOutcome("KeyError", 0)]
    ELSE LET pos == r.registers[register]
             old == r.file[pos + 1]
         IN  [rf |-> [r EXCEPT !.file[pos + 1] = value],
              out |-> RegisterOutcome("none", old)]

(***************************************************************************)
(* instructions/__init__.py: class Decoder.  An instruction class is its   *)
(* opcode and whether its format implements decode (Format.decode itself   *)
(* raises NotImplementedError); an opcode and a word are sets of bits.     *)
(***************************************************************************)
\* Decoder.__init__: the table from opcode to (the number of) the class, a
\* later class of the same opcode replacing an earlier one
Decoder_init(instruction_classes) ==
    [made |-> TRUE, instruction_classes |-> instruction_classes,
     instruction_classes_by_opcode |->
         [opcode \in {instruction_classes[i].opcode :
                        i \in 1 .. Len(instruction_classes)} |->
             CHOOSE i \in 1 .. Len(instruction_classes) :
                 /\ instruction_classes[i].opcode = opcode
                 /\ \A j \in (i + 1) .. Len(instruction_classes) :
                        instruction_classes[j].opcode # opcode]]

\* the outcome of decode: the exception raised, or the instruction returned,
\* which is its class and its value
DecodeOutcome(err, cls, value) ==
    [err |-> err, returned |-> err = "none", cls |-> cls, value |-> value]

\* Decoder.decode giving the first registered class to an opcode that is
\* not in the table
Decoder_decode_default(d, word) ==
    LET opcode == And(word, 0 .. 5)
        by_opcode == d.instruction_classes_by_opcode
    IN  IF opcode \notin DOMAIN by_opcode
        THEN IF d.instruction_classes = <<>>
             THEN [decoder |-> d, out |-> DecodeOutcome("KeyError", 0, {})]
             ELSE [decoder |-> d, out |-> DecodeOutcome("none", 1, word)]
        ELSE IF ~d.instruction_classes[by_opcode[opcode]].decodes
        THEN [decoder |-> d, out |-> DecodeOutcome("NotImplementedError", 0, {})]
        ELSE [decoder |-> d, out |-> DecodeOutcome("none", by_opcode[opcode], word)]

\* Decoder.decode(word): opcode = word & 0x3f, the lookup in the table, the
\* format's decode, and the instruction made with value = word
Decoder_decode(d, word) ==
    LET opcode == And(word, 0 .. 5)
        by_opcode == d.instruction_classes_by_opcode
    IN  IF opcode \notin DOMAIN by_opcode
        THEN [decoder |-> d, out |-> DecodeOutcome("KeyError", 0, {})]
        ELSE IF ~d.instruction_classes[by_opcode[opcode]].decodes
        THEN [decoder |-> d, out |-> DecodeOutcome("NotImplementedError", 0, {})]
        ELSE [decoder |-> d, out |-> DecodeOutcome("none", by_opcode[opcode], word)]

(***************************************************************************)
(* pyrisccore/vm/particulars/isa/rv32i.py: the formats, the operations and *)
(* the pseudoinstructions of RV32I, as the tables are written.  The        *)
(* subfields of a pseudoinstruction are left out.                          *)
(***************************************************************************)
\* a Python int literal, as the set of its 1-bits
Int2Bits(n) == {b \in 0 .. 30 : (n \div (2 ^ b)) % 2 = 1}

\* Field(Slice(start, stop), name) with stop taken as the bit after the last
Named_half_open(start, stop, name) ==
    [name |-> name, f |-> Field_of(Slice_post_init(start, stop - 1), None)]

\* Field(Slice(start, stop), name)
Named(start, stop, name) ==
    [name |-> name, f |-> Field_of(Slice_post_init(start, stop), None)]

\* Field(Slice(start, stop), name, Slice(dstart, dstop))
NamedField(start, stop, name, dstart, dstop) ==
    [name |-> name,
     f |-> Field_of(Slice_post_init(start, stop), Slice_post_init(dstart, dstop))]

\* the names of the formats
FormatNames == {"R", "I", "S", "B", "U", "J"}

\* formats: the fields of the Format of each name, in order
formats ==
    [name \in FormatNames |->
    CASE name = "R" ->
            <<Named(0, 6, "opcode"), Named(7, 11, "rd"), Named(12, 14, "funct3"),
              Named(15, 19, "rs1"), Named(20, 24, "rs2"), Named(25, 31, "funct7")>>
      [] name = "I" ->
            <<Named(0, 6, "opcode"), Named(7, 11, "rd"), Named(12, 14, "funct3"),
              Named(15, 19, "rs1"), NamedField(20, 31, "imm", 0, 11)>>
      [] name = "S" ->
            <<Named(0, 6, "opcode"), NamedField(7, 11, "imm", 0, 4),
              Named(12, 14, "funct3"), Named(15, 19, "rs1"), Named(20, 24, "rs2"),
              NamedField(25, 31, "imm", 5, 11)>>
      [] name = "B" ->
            <<Named(0, 6, "opcode"), NamedField(7, 7, "imm", 11, 11),
              NamedField(8, 11, "imm", 1, 4), Named(12, 14, "funct3"),
              Named(15, 19, "rs1"), Named(20, 24, "rs2"),
              NamedField(25, 30, "imm", 5, 10), NamedField(31, 31, "imm", 12, 12)>>
      [] name = "U" ->
            <<Named(0, 6, "opcode"), Named(7, 11, "rd"),
              NamedField(12, 31, "imm", 12, 31)>>
      [] name = "J" ->
            <<Named(0, 6, "opcode"), Named(7, 11, "rd"),
              NamedField(12, 19, "imm", 12, 19), NamedField(20, 20, "imm", 11, 11),
              NamedField(21, 30, "imm", 1, 10), NamedField(31, 31, "imm", 20, 20)>>]

\* Operation(format, opcode, name)
Operation(format, opcode, name) ==
    [format |-> format, opcode |-> Int2Bits(opcode), name |-> name]

\* operations
operations ==
    {Operation("I", \b0010011, "OP-IMM"), Operation("U", \b0110111, "LUI"),
     Operation("U", \b0010111, "AUIPC"), Operation("R", \b0110011, "OP"),
     Operation("J", \b1101111, "JAL"), Operation("I", \b1100111, "JALR"),
     Operation("B", \b1100011, "BRANCH"), Operation("I", \b0000011, "LOAD"),
     Operation("S", \b0100011, "STORE"), Operation("I", \b0001111, "MISC-MEM"),
     Operation("I", \b1110011, "SYSTEM")}

\* the key of a constant that is a field name has no Field
NoKey == FieldError("unset", None, None)

\* PseudoInstruction(mnemonic, operation, constants); a constant is keyed by a
\* field name (named) or by a Field, and has the value required of it
PseudoInstruction(mnemonic, operation, constants) ==
    [mnemonic |-> mnemonic, operation |-> operation, constants |-> constants]

\* pseudoinstructions
pseudoinstructions ==
    {
        PseudoInstruction("ADDI", "OP-IMM", {
            [named |-> TRUE, key |-> "funct3", field |-> NoKey, value |-> Int2Bits(\b000)]}),
        PseudoInstruction("SLTI", "OP-IMM", {
            [named |-> TRUE, key |-> "funct3", field |-> NoKey, value |-> Int2Bits(\b010)]}),
        PseudoInstruction("SLTIU", "OP-IMM", {
            [named |-> TRUE, key |-> "funct3", field |-> NoKey, value |-> Int2Bits(\b011)]}),
        PseudoInstruction("ANDI", "OP-IMM", {
            [named |-> TRUE, key |-> "funct3", field |-> NoKey, value |-> Int2Bits(\b111)]}),
        PseudoInstruction("ORI", "OP-IMM", {
            [named |-> TRUE, key |-> "funct3", field |-> NoKey, value |-> Int2Bits(\b000)]}),
        PseudoInstruction("XORI", "OP-IMM", {
            [named |-> TRUE, key |-> "funct3", field |-> NoKey, value |-> Int2Bits(\b000)]}),
        PseudoInstruction("SLLI", "OP-IMM", {
            [named |-> TRUE, key |-> "funct3", field |-> NoKey, value |-> Int2Bits(\b001)],
            [named |-> FALSE, key |-> "imm", field |-> NamedField(25, 31, "imm", 5, 11).f, value |-> Int2Bits(\b0000000)]}),
        PseudoInstruction("SRLI", "OP-IMM", {
            [named |-> TRUE, key |-> "funct3", field |-> NoKey, value |-> Int2Bits(\b101)],
            [named |-> FALSE, key |-> "imm", field |-> NamedField(25, 31, "imm", 5, 11).f, value |-> Int2Bits(0)]}),
        PseudoInstruction("SRAI", "OP-IMM", {
            [named |-> TRUE, key |-> "funct3", field |-> NoKey, value |-> Int2Bits(\b101)],
            [named |-> FALSE, key |-> "imm", field |-> NamedField(25, 31, "imm", 5, 11).f, value |-> Int2Bits(\b0100000)]}),
        PseudoInstruction("LUI", "LUI", {}),
        PseudoInstruction("AUIPC", "AUIPC", {}),
        PseudoInstruction("ADD", "OP", {
            [named |-> TRUE, key |-> "funct3", field |-> NoKey, value |-> Int2Bits(\b000)],
            [named |-> TRUE, key |-> "funct7", field |-> NoKey, value |-> Int2Bits(0)]}),
        PseudoInstruction("SLT", "OP", {
            [named |-> TRUE, key |-> "funct3", field |-> NoKey, value |-> Int2Bits(\b010)],
            [named |-> TRUE, key |-> "funct7", field |-> NoKey, value |-> Int2Bits(0)]}),
        PseudoInstruction("SLTU", "OP", {
            [named |-> TRUE, key |-> "funct3", field |-> NoKey, value |-> Int2Bits(\b011)],
            [named |-> TRUE, key |-> "funct7", field |-> NoKey, value |-> Int2Bits(0)]}),
        PseudoInstruction("AND", "OP", {
            [named |-> TRUE, key |-> "funct3", field |-> NoKey, value |-> Int2Bits(\b111)],
            [named |-> TRUE, key |-> "funct7", field |-> NoKey, value |-> Int2Bits(0)]}),
        PseudoInstruction("OR", "OP", {
            [named |-> TRUE, key |-> "funct3", field |-> NoKey, value |-> Int2Bits(\b110)],
            [named |-> TRUE, key |-> "funct7", field |-> NoKey, value |-> Int2Bits(0)]}),
        PseudoInstruction("XOR", "OP", {
            [named |-> TRUE, key |-> "funct3", field |-> NoKey, value |-> Int2Bits(\b100)],
            [named |-> TRUE, key |-> "funct7", field |-> NoKey, value |-> Int2Bits(0)]}),
        PseudoInstruction("SLL", "OP", {
            [named |-> TRUE, key |-> "funct3", field |-> NoKey, value |-> Int2Bits(\b001)],
            [named |-> TRUE, key |-> "funct7", field |-> NoKey, value |-> Int2Bits(0)]}),
        PseudoInstruction("SRL", "OP", {
            [named |-> TRUE, key |-> "funct3", field |-> NoKey, value |-> Int2Bits(\b101)],
            [named |-> TRUE, key |-> "funct7", field |-> NoKey, value |-> Int2Bits(0)]}),
        PseudoInstruction("SUB", "OP", {
            [named |-> TRUE, key |-> "funct3", field |-> NoKey, value |-> Int2Bits(\b000)],
            [named |-> TRUE, key |-> "funct7", field |-> NoKey, value |-> Int2Bits(\b0100000)]}),
        PseudoInstruction("SRA", "OP", {
            [named |-> TRUE, key |-> "funct3", field |-> NoKey, value |-> Int2Bits(\b101)],
            [named |-> TRUE, key |-> "funct7", field |-> NoKey, value |-> Int2Bits(\b0100000)]}),
        PseudoInstruction("JAL", "JAL", {}),
        PseudoInstruction("JALR", "JALR", {}),
        PseudoInstruction("BEQ", "BRANCH", {
            [named |-> TRUE, key |-> "funct3", field |-> NoKey, value |-> Int2Bits(\b000)]}),
        PseudoInstruction("BNE", "BRANCH", {
            [named |-> TRUE, key |-> "funct3", field |-> NoKey, value |-> Int2Bits(\b001)]}),
        PseudoInstruction("BLT", "BRANCH", {
            [named |-> TRUE, key |-> "funct3", field |-> NoKey, value |-> Int2Bits(\b100)]}),
        PseudoInstruction("BLTU", "BRANCH", {
            [named |-> TRUE, key |-> "funct3", field |-> NoKey, value |-> Int2Bits(\b110)]}),
        PseudoInstruction("BGE", "BRANCH", {
            [named |-> TRUE, key |-> "funct3", field |-> NoKey, value |-> Int2Bits(\b101)]}),
        PseudoInstruction("BGEU", "BRANCH", {
            [named |-> TRUE, key |-> "funct3", field |-> NoKey, value |-> Int2Bits(\b111)]}),
        PseudoInstruction("LB", "LOAD", {
            [named |-> TRUE, key |-> "funct3", field |-> NoKey, value |-> Int2Bits(\b000)]}),
        PseudoInstruction("LH", "LOAD", {
            [named |-> TRUE, key |-> "funct3", field |-> NoKey, value |-> Int2Bits(\b001)]}),
        PseudoInstruction("LW", "LOAD", {
            [named |-> TRUE, key |-> "funct3", field |-> NoKey, value |-> Int2Bits(\b010)]}),
        PseudoInstruction("LBU", "LOAD", {
            [named |-> TRUE, key |-> "funct3", field |-> NoKey, value |-> Int2Bits(\b100)]}),
        PseudoInstruction("LHU", "LOAD", {
            [named |-> TRUE, key |-> "funct3", field |-> NoKey, value |-> Int2Bits(\b101)]}),
        PseudoInstruction("SB", "STORE", {
            [named |-> TRUE, key |-> "funct3", field |-> NoKey, value |-> Int2Bits(\b000)]}),
        PseudoInstruction("SH", "STORE", {
            [named |-> TRUE, key |-> "funct3", field |-> NoKey, value |-> Int2Bits(\b001)]}),
        PseudoInstruction("SW", "STORE", {
            [named |-> TRUE, key |-> "funct3", field |-> NoKey, value |-> Int2Bits(\b010)]}),
        PseudoInstruction("FENCE", "MISC-MEM", {
            [named |-> TRUE, key |-> "rd", field |-> NoKey, value |-> Int2Bits(0)],
            [named |-> TRUE, key |-> "rs1", field |-> NoKey, value |-> Int2Bits(0)]}),
        PseudoInstruction("ECALL", "SYSTEM", {
            [named |-> TRUE, key |-> "rd", field |-> NoKey, value |-> Int2Bits(0)],
            [named |-> TRUE, key |-> "rs1", field |-> NoKey, value |-> Int2Bits(0)],
            [named |-> TRUE, key |-> "funct3", field |-> NoKey, value |-> Int2Bits(\b000)],
            [named |-> TRUE, key |-> "imm", field |-> NoKey, value |-> Int2Bits(\b000)]}),
        PseudoInstruction("EBREAK", "SYSTEM", {
            [named |-> TRUE, key |-> "rd", field |-> NoKey, value |-> Int2Bits(0)],
            [named |-> TRUE, key |-> "rs1", field |-> NoKey, value |-> Int2Bits(0)],
            [named |-> TRUE, key |-> "funct3", field |-> NoKey, value |-> Int2Bits(\b000)],
            [named |-> TRUE, key |-> "imm", field |-> NoKey, value |-> Int2Bits(\b000)]})
    }

(***************************************************************************)
(* The use of the tables: a word is composed by the writes of the Fields of *)
(* a Format, and taken apart by their reads; the Fields of one name make a  *)
(* Value (field.py: "Fields with the same name compose one Value").         *)
(***************************************************************************)
\* one more Field of the format written, into a zero word, and or-ed to the
\* word composed so far
ComposeField(word, f, value) == Or(word, Field_write(f, value, {}))

\* the reads of all the Fields of the format from the word
ReadFields(format, word) ==
    [i \in 1 .. Len(formats[format]) |-> Field_read(formats[format][i].f, word)]

\* the Fields of the given name in the format, in order
RECURSIVE FieldsNamed(_, _)
FieldsNamed(fields, name) ==
    IF fields = <<>> THEN <<>>
    ELSE IF Head(fields).name = name
    THEN <<Head(fields).f>> \o FieldsNamed(Tail(fields), name)
    ELSE FieldsNamed(Tail(fields), name)

\* the Value composed of the Fields of each name of each format
NamedValues ==
    [format \in FormatNames |->
        [name \in {formats[format][i].name : i \in 1 .. Len(formats[format])} |->
            Value_post_init(FieldsNamed(formats[format], name))]]

\* the Value composed of the Fields of the given name
NamedValue(format, name) == NamedValues[format][name]

\* the operations whose opcode is the one read by the opcode Field
OperationsOf(word) ==
    {o \in operations : o.opcode = Field_read(formats[o.format][1].f, word)}

\* the word has the value the constant requires: read by the Field that is
\* the key, or by the fields of the name that is the key
ConstantMatches(format, c, word) ==
    IF c.named
    THEN Value_read(NamedValue(format, c.key), word) = c.value
    ELSE Field_read(c.field, word) = c.value

\* the mnemonics of the pseudoinstructions of the word's operation whose
\* constants the word matches, every one of them
Matching(word) ==
    {p.mnemonic : p \in
        {q \in pseudoinstructions :
            \E o \in OperationsOf(word) :
                /\ q.operation = o.name
                /\ \A c \in q.constants : ConstantMatches(o.format, c, word)}}

(***************************************************************************)
(* misc.py: class frozendict(dict).  The items of a dict are a sequence of *)
(* [k, v] records in the order of insertion, with distinct keys; only       *)
(* __hash__ and __setitem__ are defined by frozendict, every other method   *)
(* is the one of dict.                                                      *)
(***************************************************************************)
\* dict.keys(), as a set
dict_keys(items) == {items[i].k : i \in 1 .. Len(items)}

\* the items without the one of the key
RECURSIVE dict_without(_, _)
dict_without(items, key) ==
    IF items = <<>> THEN <<>>
    ELSE IF Head(items).k = key THEN Tail(items)
    ELSE <<Head(items)>> \o dict_without(Tail(items), key)

\* d[key]
dict_getitem(items, key) ==
    (CHOOSE e \in {items[i] : i \in 1 .. Len(items)} : e.k = key).v

\* the outcome of a call on a dict: the items after it, the exception raised
\* and the value returned
DictOutcome(items, err, result) == [items |-> items, err |-> err, result |-> result]

\* frozendict.__setitem__(key, value): raise NotImplementedError
frozendict_setitem(items, key, value) ==
    DictOutcome(items, "NotImplementedError", 0)

\* frozendict.__hash__(): hash(frozenset(self.keys())), a function of the
\* set of the keys, which stands for it
frozendict_hash(items) == dict_keys(items)

\* dict.__delitem__(key)
dict_delitem(items, key) ==
    IF key \notin dict_keys(items) THEN DictOutcome(items, "KeyError", 0)
    ELSE DictOutcome(dict_without(items, key), "none", 0)

\* dict.update({key: value})
dict_update(items, key, value) ==
    IF key \in dict_keys(items)
    THEN DictOutcome([i \in 1 .. Len(items) |->
                         IF items[i].k = key THEN [k |-> key, v |-> value]
                         ELSE items[i]], "none", 0)
    ELSE DictOutcome(Append(items, [k |-> key, v |-> value]), "none", 0)

\* dict.pop(key)
dict_pop(items, key) ==
    IF key \notin dict_keys(items) THEN DictOutcome(items, "KeyError", 0)
    ELSE DictOutcome(dict_without(items, key), "none", dict_getitem(items, key))

\* dict.setdefault(key, value)
dict_setdefault(items, key, value) ==
    IF key \in dict_keys(items)
    THEN DictOutcome(items, "none", dict_getitem(items, key))
    ELSE DictOutcome(Append(items, [k |-> key, v |-> value]), "none", value)

\* dict.clear()
dict_clear(items) == DictOutcome(<<>>, "none", 0)

(***************************************************************************)
(* instructions/__init__.py: the legacy class Field(lsb, msb).             *)
(***************************************************************************)
\* x + 1: the carry clears the 1-bits below the lowest 0-bit and sets it
Inc(x) ==
    LET z == CHOOSE b \in 0 .. bit_length(x) :
                 b \notin x /\ \A c \in 0 .. (b - 1) : c \in x
    IN  (x \ (0 .. (z - 1))) \cup {z}

\* the loop of Field._mask from iteration i on, of range(n):
\* mask <<= 1; if i < size: mask += 1
RECURSIVE LegacyField_mask_loop(_, _, _, _)
LegacyField_mask_loop(i, n, size, m) ==
    IF i >= n THEN m
    ELSE LegacyField_mask_loop(i + 1, n, size,
             IF i < size THEN Inc(Shl(m, 1)) ELSE Shl(m, 1))

\* Field._mask looping over range(size)
LegacyField_mask_short_range(lsb, size) ==
    IF size = 0 THEN {} ELSE LegacyField_mask_loop(0, size, size, {})

\* Field._mask(lsb, size)
LegacyField_mask(lsb, size) ==
    IF size = 0 THEN {} ELSE LegacyField_mask_loop(0, size + lsb, size, {})

\* Field(lsb, msb): __init__; value is not set before set is called
LegacyField_init(lsb, msb) ==
    [made |-> TRUE, lsb |-> lsb, msb |-> msb, size |-> msb - lsb + 1,
     mask |-> LegacyField_mask(lsb, msb - lsb + 1),
     has_value |-> FALSE, value |-> {}, word |-> {}]

\* Field.set(word): self.value = (word & self.mask) >> self.lsb
LegacyField_set(f, word) ==
    [f EXCEPT !.has_value = TRUE, !.value = Shr(And(word, f.mask), f.lsb),
              !.word = word]

(***************************************************************************)
(* misc.py: bit_count, one iteration of its loop at a time.                *)
(***************************************************************************)
\* an iteration that shifts only past a 1-bit: i >>= i & 0x1
bit_count_iteration_stuck(b) ==
    [b EXCEPT !.count = b.count + (IF And(b.i, One) = One THEN 1 ELSE 0),
              !.i = Shr(b.i, IF And(b.i, One) = One THEN 1 ELSE 0)]

\* one iteration of the loop: count += i & 0x1; i >>= 1
bit_count_iteration(b) ==
    [b EXCEPT !.count = b.count + (IF And(b.i, One) = One THEN 1 ELSE 0),
              !.i = Shr(b.i, 1)]

(***************************************************************************)
(* instructions/__init__.py: the legacy formats RType .. JType, and the    *)
(* opcode bits that Decoder.decode takes from a word.                      *)
(***************************************************************************)
\* RType.fields .. JType.fields, by the letter of the format
LegacyFormats ==
    [name \in FormatNames |->
    CASE name = "R" ->
            <<LegacyField_init(0, 6), LegacyField_init(7, 11),
              LegacyField_init(12, 14), LegacyField_init(15, 19),
              LegacyField_init(20, 24), LegacyField_init(25, 31)>>
      [] name = "I" ->
            <<LegacyField_init(0, 6), LegacyField_init(7, 11),
              LegacyField_init(12, 14), LegacyField_init(15, 19),
              LegacyField_init(20, 31)>>
      [] name = "S" ->
            <<LegacyField_init(0, 6), LegacyField_init(7, 11),
              LegacyField_init(12, 14), LegacyField_init(15, 19),
              LegacyField_init(20, 24), LegacyField_init(25, 31)>>
      [] name = "B" ->
            <<LegacyField_init(0, 6), LegacyField_init(7, 7),
              LegacyField_init(8, 11), LegacyField_init(12, 14),
              LegacyField_init(15, 19), LegacyField_init(20, 24),
              LegacyField_init(25, 30), LegacyField_init(31, 31)>>
      [] name = "U" ->
            <<LegacyField_init(0, 6), LegacyField_init(7, 11),
              LegacyField_init(12, 31)>>
      [] name = "J" ->
            <<LegacyField_init(0, 6), LegacyField_init(7, 11),
              LegacyField_init(12, 19), LegacyField_init(20, 20),
              LegacyField_init(21, 30), LegacyField_init(31, 31)>>]

\* opcode = word & 0x3f, the first line of Decoder.decode
Decoder_opcode(word) == And(word, 0 .. 5)

\* the operations that have, under word & 0x3f, the opcode bits of the word
OperationsByDecoderOpcode(word) ==
    {o \in operations : Decoder_opcode(o.opcode) = Decoder_opcode(word)}

(***************************************************************************)
(* State: the object last constructed of each class and the last call made *)
(* on it.                                                                  *)
(***************************************************************************)
VARIABLES slice, sres, field, fres, val, vres, mres, rf, rres, last, decoder, dres,
          isa, ires, fd, fdres, legacy, bc

\* the Slice, the Field and the Value at hand, each with the last call on it
coreVars == <<slice, sres, field, fres, val, vres>>

\* the rest of the state
restVars == <<mres, rf, rres, last, decoder, dres, isa, ires, fd, fdres, legacy, bc>>

\* the frozendict, with the items it was constructed from, and the last call
\* on it
frozenVars == <<fd, fdres>>

\* the legacy Field of instructions/__init__.py
legacyVars == <<legacy>>

\* the run of bit_count
countVars == <<bc>>

\* the state of the helpers of misc.py and of the legacy Field
miscVars == <<mres, frozenVars, legacyVars, countVars>>

\* the word being put together or taken apart with the RV32I tables, and the
\* last call on it
isaVars == <<isa, ires>>

\* the legacy Decoder and the last call of decode
decoderVars == <<decoder, dres>>

\* the RegisterFile, the last call on it, and the value last stored to each
\* register (a history of the calls, not a field of the object)
registerVars == <<rf, rres, last>>

vars == <<coreVars, restVars>>

\* integers used as slice bounds: one negative, the low bits, the top bit
\* of the word and the first bit beyond it
SliceBounds == {-1} \cup (0 .. MaxBit) \cup {XLEN - 1, XLEN}

\* 1-bits of the integers passed to Slice.get / Slice.set
AnyBits == (0 .. MaxBit) \cup {XLEN - 1, XLEN}

AnyInts == SUBSET AnyBits

NoSlice == [ok |-> FALSE, err |-> "unset", start |-> 0, stop |-> 0,
            length |-> 0, mask |-> {}]

NoCall == [op |-> "none", value |-> {}, arg |-> {}, result |-> {}]

NoField == FieldError("unset", NoSlice, None)

NoValue == ValueError("unset", 0, <<>>)

\* no call of mask made
NoMask == [op |-> "none", lsb |-> 0, length |-> 0, result |-> {}]

\* no legacy Field constructed
NoLegacyField ==
    [made |-> FALSE, lsb |-> 0, msb |-> 0, size |-> 0, mask |-> {},
     has_value |-> FALSE, value |-> {}, word |-> {}]

\* bit_count is not running
NoCount == [pc |-> "idle", arg |-> {}, i |-> {}, count |-> 0]

\* no frozendict constructed
NoDict == [made |-> FALSE, items |-> <<>>, initial |-> <<>>]

\* no call made on the frozendict
NoDictCall ==
    [op |-> "none", key |-> "", value |-> 0, err |-> "none", result |-> 0,
     hash |-> {}]

\* no word at hand
NoWord == [phase |-> "idle", fmt |-> "", vals |-> <<>>, word |-> {}]

\* no call made on the word
NoIsaCall ==
    [op |-> "none", name |-> "", ok |-> TRUE, vals |-> <<>>, value |-> {},
     opnames |-> {}, matches |-> {}]

\* no Decoder constructed
NoDecoder ==
    [made |-> FALSE, instruction_classes |-> <<>>,
     instruction_classes_by_opcode |-> [opcode \in {} |-> 0]]

\* no call of decode made
NoDecode ==
    [op |-> "none", word |-> {}, err |-> "none", returned |-> FALSE,
     cls |-> 0, value |-> {}]

\* no RegisterFile constructed
NoRegisterFile ==
    [made |-> FALSE, xlen |-> 0, file |-> <<>>, registers |-> [r \in {} |-> 0]]

\* no call made on the RegisterFile; seq alternates from call to call
NoRegisterCall ==
    [op |-> "none", register |-> "", value |-> 0, err |-> "none",
     result |-> 0, seq |-> 0]

\* no object of any class has been constructed
Unset ==
    /\ slice = NoSlice
    /\ sres = NoCall
    /\ field = NoField
    /\ fres = NoCall
    /\ val = NoValue
    /\ vres = NoCall
    /\ mres = NoMask
    /\ rf = NoRegisterFile
    /\ rres = NoRegisterCall
    /\ last = [r \in {} |-> 0]
    /\ decoder = NoDecoder
    /\ dres = NoDecode
    /\ isa = NoWord
    /\ ires = NoIsaCall
    /\ fd = NoDict
    /\ fdres = NoDictCall
    /\ legacy = NoLegacyField
    /\ bc = NoCount

(***************************************************************************)
(* Slice: construction and calls.                                          *)
(***************************************************************************)
SliceInit == Unset

\* s = Slice(start, stop)
NewSlice ==
    /\ slice = NoSlice
    /\ mres = NoMask
    /\ \E start \in SliceBounds, stop \in SliceBounds :
        slice' = Slice_post_init(start, stop)
    /\ UNCHANGED <<sres, field, fres, val, vres, restVars>>

\* s.get(source)
SliceGet ==
    /\ slice.ok
    /\ sres = NoCall
    /\ \E source \in AnyInts :
        sres' = [op |-> "get", value |-> {}, arg |-> source,
                 result |-> Slice_get(slice, source)]
    /\ UNCHANGED <<slice, field, fres, val, vres, restVars>>

\* s.set(value, destination)
SliceSet ==
    /\ slice.ok
    /\ sres = NoCall
    /\ \E value \in AnyInts, destination \in AnyInts :
        sres' = [op |-> "set", value |-> value, arg |-> destination,
                 result |-> Slice_set(slice, value, destination)]
    /\ UNCHANGED <<slice, field, fres, val, vres, restVars>>

\* the caller has used the result of the call
SliceReturn ==
    /\ sres # NoCall
    /\ sres' = NoCall
    /\ UNCHANGED <<slice, field, fres, val, vres, restVars>>

\* the caller lets go of the Slice (or of the failed construction)
SliceDrop ==
    /\ slice # NoSlice
    /\ sres = NoCall
    /\ slice' = NoSlice
    /\ UNCHANGED <<sres, field, fres, val, vres, restVars>>

\* mask(lsb, length), called on its own
MaskCall ==
    /\ slice = NoSlice
    /\ mres = NoMask
    /\ \E lsb \in AnyBits, length \in 0 .. (MaxBit + 1) :
        mres' = [op |-> "mask", lsb |-> lsb, length |-> length,
                 result |-> mask(lsb, length)]
    /\ UNCHANGED <<coreVars, registerVars, decoderVars, isaVars, frozenVars, legacyVars, countVars>>

\* the caller has used the result of mask
MaskReturn ==
    /\ mres # NoMask
    /\ mres' = NoMask
    /\ UNCHANGED <<coreVars, registerVars, decoderVars, isaVars, frozenVars, legacyVars, countVars>>

SliceNext ==
    \/ NewSlice \/ SliceGet \/ SliceSet \/ SliceReturn \/ SliceDrop
    \/ MaskCall \/ MaskReturn

SpecSlice == SliceInit /\ [][SliceNext]_vars

(***************************************************************************)
(* Field: construction and calls.                                          *)
(***************************************************************************)
\* the Slice objects a Field is constructed from
Slices ==
    {s \in {Slice_post_init(start, stop) :
               start \in SliceBounds, stop \in SliceBounds} : s.ok}

\* the Slice(start, stop) expressions that raise
FailedSlices ==
    {s \in {Slice_post_init(start, stop) :
               start \in SliceBounds, stop \in SliceBounds} : ~s.ok}

FieldInit == Unset

\* f = Field(source, name, destination)
NewField ==
    /\ field = NoField
    /\ \E source \in Slices \cup FailedSlices,
          destination \in Slices \cup FailedSlices \cup {None} :
        field' = Field_of(source, destination)
    /\ UNCHANGED <<slice, sres, fres, val, vres, restVars>>

\* f.read(source)
FieldRead ==
    /\ field.ok
    /\ fres = NoCall
    /\ \E source \in AnyInts :
        fres' = [op |-> "read", value |-> {}, arg |-> source,
                 result |-> Field_read(field, source)]
    /\ UNCHANGED <<slice, sres, field, val, vres, restVars>>

\* f.write(value, destination)
FieldWrite ==
    /\ field.ok
    /\ fres = NoCall
    /\ \E value \in AnyInts, destination \in AnyInts :
        fres' = [op |-> "write", value |-> value, arg |-> destination,
                 result |-> Field_write(field, value, destination)]
    /\ UNCHANGED <<slice, sres, field, val, vres, restVars>>

\* the caller has used the result of the call
FieldReturn ==
    /\ fres # NoCall
    /\ fres' = NoCall
    /\ UNCHANGED <<slice, sres, field, val, vres, restVars>>

\* the caller lets go of the Field (or of the failed construction)
FieldDrop ==
    /\ field # NoField
    /\ fres = NoCall
    /\ field' = NoField
    /\ UNCHANGED <<slice, sres, fres, val, vres, restVars>>

FieldNext == NewField \/ FieldRead \/ FieldWrite \/ FieldReturn \/ FieldDrop

SpecField == FieldInit /\ [][FieldNext]_vars

(***************************************************************************)
(* Value: construction and calls.                                          *)
(***************************************************************************)
\* bounds of the slices of the fields of a Value
ValueBits == 0 .. MaxValueBit

\* the integers passed to Value.read / Value.write: 1-bits among the low
\* bits and the top bit of the word
ValueInts == SUBSET (ValueBits \cup {XLEN - 1})

\* the Slice objects of the fields of a Value: every slice of the low bits
\* and the slice of the whole word
ValueSlices ==
    {Slice_post_init(start, stop) :
        <<start, stop>> \in {b \in ValueBits \X ValueBits : b[1] <= b[2]}
                                \cup {<<0, XLEN - 1>>}}

\* the Field objects a Value is constructed from
ValueFields ==
    {f \in {Field_post_init(source, destination) :
               source \in ValueSlices, destination \in ValueSlices \cup {None}} :
        f.ok}

ValueInit == Unset

\* val = Value(fields)
NewValue ==
    /\ val = NoValue
    /\ \E n \in 0 .. MaxFields :
        \E fields \in [1 .. n -> ValueFields] :
            val' = Value_post_init(fields)
    /\ UNCHANGED <<slice, sres, field, fres, vres, restVars>>

\* val.read(source)
ValueRead ==
    /\ val.ok
    /\ vres = NoCall
    /\ \E source \in ValueInts :
        vres' = [op |-> "read", value |-> {}, arg |-> source,
                 result |-> Value_read(val, source)]
    /\ UNCHANGED <<slice, sres, field, fres, val, restVars>>

\* val.write(value, destination)
ValueWrite ==
    /\ val.ok
    /\ vres = NoCall
    /\ \E v \in ValueInts, destination \in ValueInts :
        vres' = [op |-> "write", value |-> v, arg |-> destination,
                 result |-> Value_write(val, v, destination)]
    /\ UNCHANGED <<slice, sres, field, fres, val, restVars>>

\* the caller has used the result of the call
ValueReturn ==
    /\ vres # NoCall
    /\ vres' = NoCall
    /\ UNCHANGED <<slice, sres, field, fres, val, restVars>>

\* the caller lets go of the Value (or of the failed construction)
ValueDrop ==
    /\ val # NoValue
    /\ vres = NoCall
    /\ val' = NoValue
    /\ UNCHANGED <<slice, sres, field, fres, vres, restVars>>

ValueNext == NewValue \/ ValueRead \/ ValueWrite \/ ValueReturn \/ ValueDrop

SpecValue == ValueInit /\ [][ValueNext]_vars

(***************************************************************************)
(* The register file: constructed once, then loaded from and stored to in  *)
(* any order.                                                              *)
(***************************************************************************)
\* the names given to load and store: every register of the largest file,
\* and one name more
RegisterNames == {XName(n) : n \in 0 .. (MaxXlen + 1)} \cup {"pc"}

\* the values given to store
RegisterValues == (0 .. MaxRegValue) \cup {9}

RegisterInit == Unset

\* rf = RegisterFile(xlen)
NewRegisterFile ==
    /\ ~rf.made
    /\ \E xlen \in 0 .. MaxXlen :
        /\ rf' = RegisterFile_init(xlen)
        /\ last' = [r \in DOMAIN RegisterFile_init(xlen).registers |-> 0]
    /\ UNCHANGED <<coreVars, miscVars, rres, decoderVars, isaVars>>

\* rf.load(register)
RegisterLoad ==
    /\ rf.made
    /\ \E register \in RegisterNames :
        LET out == RegisterFile_load(rf, register)
        IN  rres' = [op |-> "load", register |-> register, value |-> 0,
                     err |-> out.err, result |-> out.result,
                     seq |-> 1 - rres.seq]
    /\ UNCHANGED <<coreVars, miscVars, rf, last, decoderVars, isaVars>>

\* rf.store(register, value)
RegisterStore ==
    /\ rf.made
    /\ \E register \in RegisterNames, value \in RegisterValues :
        LET res == RegisterFile_store(rf, register, value)
        IN  /\ rf' = res.rf
            /\ rres' = [op |-> "store", register |-> register,
                        value |-> value, err |-> res.out.err,
                        result |-> res.out.result, seq |-> 1 - rres.seq]
            /\ last' = IF res.out.err = "none"
                       THEN [last EXCEPT ![register] = value]
                       ELSE last
    /\ UNCHANGED <<coreVars, miscVars, decoderVars, isaVars>>

RegisterNext == NewRegisterFile \/ RegisterLoad \/ RegisterStore

SpecRegisters == RegisterInit /\ [][RegisterNext]_vars

(***************************************************************************)
(* The legacy Decoder: a subclass lists its instruction classes, the       *)
(* Decoder is constructed, and words are decoded in any order.             *)
(***************************************************************************)
\* the opcodes of the instruction classes: OP-IMM (0b0010011), OP
\* (0b0110011) and JAL (0b1101111)
DecoderOpcodes == {{0, 1, 4}, {0, 1, 4, 5}, {0, 1, 2, 3, 5, 6}}

\* the instruction classes a subclass of Decoder may list
DecoderClasses == [opcode : DecoderOpcodes, decodes : BOOLEAN]

\* the words given to decode
DecoderWords == SUBSET {0, 1, 4, 5, 6, 20}

DecoderInit == Unset

\* decoder = Decoder(), of a subclass listing instruction_classes
NewDecoder ==
    /\ ~decoder.made
    /\ \E n \in 0 .. MaxClasses :
        \E instruction_classes \in [1 .. n -> DecoderClasses] :
            decoder' = Decoder_init(instruction_classes)
    /\ UNCHANGED <<coreVars, miscVars, registerVars, dres, isaVars>>

\* decoder.decode(word)
DecoderDecode ==
    /\ decoder.made
    /\ \E word \in DecoderWords :
        LET res == Decoder_decode(decoder, word)
        IN  /\ decoder' = res.decoder
            /\ dres' = [op |-> "decode", word |-> word, err |-> res.out.err,
                        returned |-> res.out.returned, cls |-> res.out.cls,
                        value |-> res.out.value]
    /\ UNCHANGED <<coreVars, miscVars, registerVars, isaVars>>

DecoderNext == NewDecoder \/ DecoderDecode

SpecDecoder == DecoderInit /\ [][DecoderNext]_vars

(***************************************************************************)
(* The RV32I tables at work: a word is composed field by field in a format, *)
(* or fetched; then its fields are read, a named value is read, or the      *)
(* pseudoinstructions it matches are looked up.                             *)
(***************************************************************************)
\* the values written to a field: 0, 5 and the opcode of OP-IMM
IsaValues == {Int2Bits(0), Int2Bits(5), Int2Bits(\b0010011)}

\* the words fetched: ADDI x5, x0, 5; branches with offset bits; words of
\* OP-IMM, OP and SYSTEM with their funct3, funct7 and imm bits; and words of
\* no operation
IsaWords ==
    {{0, 1, 4, 7, 9, 20, 22},
     {31}, {0, 1, 5, 6, 31}, {7, 8, 9, 10, 11, 25, 26, 27, 28, 29},
     {0, 1, 5, 6, 7, 8, 9, 10, 11, 12, 25, 26, 27, 28, 29},
     {0, 1, 4, 14}, {0, 1, 4, 12, 14}, {0, 1, 4, 12, 14, 30}, {0, 1, 4, 12},
     {0, 1, 4, 5}, {0, 1, 4, 5, 30}, {0, 1, 4, 5, 12, 14, 30},
     {0, 1, 4, 5, 6}, {0, 1, 4, 5, 6, 20}, {0, 1, 2, 3},
     {}, {0, 1, 2, 3, 4, 5, 6}}

IsaInit == Unset

\* a word is begun in a format
IsaBegin ==
    /\ isa.phase = "idle"
    /\ \E fmt \in FormatNames :
        isa' = [phase |-> "composing", fmt |-> fmt, vals |-> <<>>, word |-> {}]
    /\ UNCHANGED <<coreVars, miscVars, registerVars, decoderVars, ires>>

\* the next Field of the format is written; after the last the word is done
IsaWriteField ==
    /\ isa.phase = "composing"
    /\ \E value \in IsaValues :
        LET i == Len(isa.vals) + 1
        IN  isa' = [phase |-> IF i = Len(formats[isa.fmt]) THEN "word"
                              ELSE "composing",
                    fmt |-> isa.fmt,
                    vals |-> Append(isa.vals, value),
                    word |-> ComposeField(isa.word, formats[isa.fmt][i].f, value)]
    /\ UNCHANGED <<coreVars, miscVars, registerVars, decoderVars, ires>>

\* a word is fetched, to be read in a format
IsaFetch ==
    /\ isa.phase = "idle"
    /\ \E word \in IsaWords, fmt \in FormatNames :
        isa' = [phase |-> "word", fmt |-> fmt, vals |-> <<>>, word |-> word]
    /\ UNCHANGED <<coreVars, miscVars, registerVars, decoderVars, ires>>

\* every Field of the format is read from the word
IsaReadFields ==
    /\ isa.phase = "word"
    /\ ires = NoIsaCall
    /\ ires' = [NoIsaCall EXCEPT !.op = "read",
                                 !.vals = ReadFields(isa.fmt, isa.word)]
    /\ UNCHANGED <<coreVars, miscVars, registerVars, decoderVars, isa>>

\* the Value of the Fields of one name is constructed and read from the word
IsaReadValue ==
    /\ isa.phase = "word"
    /\ ires = NoIsaCall
    /\ \E i \in 1 .. Len(formats[isa.fmt]) :
        LET name == formats[isa.fmt][i].name
            v == NamedValue(isa.fmt, name)
        IN  ires' = [NoIsaCall EXCEPT !.op = "value", !.name = name,
                                     !.ok = v.ok,
                                     !.value = IF v.ok THEN Value_read(v, isa.word)
                                               ELSE {}]
    /\ UNCHANGED <<coreVars, miscVars, registerVars, decoderVars, isa>>

\* the operations and the pseudoinstructions of the word are looked up
IsaMatch ==
    /\ isa.phase = "word"
    /\ ires = NoIsaCall
    /\ ires' = [NoIsaCall EXCEPT !.op = "match",
                                 !.opnames = {o.name : o \in OperationsOf(isa.word)},
                                 !.matches = Matching(isa.word)]
    /\ UNCHANGED <<coreVars, miscVars, registerVars, decoderVars, isa>>

\* the operations of the word are looked up by the opcode bits of
\* Decoder.decode
IsaExtract ==
    /\ isa.phase = "word"
    /\ ires = NoIsaCall
    /\ ires' = [NoIsaCall EXCEPT !.op = "extract",
                                 !.value = Decoder_opcode(isa.word),
                                 !.opnames = {o.name : o \in
                                     OperationsByDecoderOpcode(isa.word)}]
    /\ UNCHANGED <<coreVars, miscVars, registerVars, decoderVars, isa>>

\* the caller has used the result of the call
IsaReturn ==
    /\ ires # NoIsaCall
    /\ ires' = NoIsaCall
    /\ UNCHANGED <<coreVars, miscVars, registerVars, decoderVars, isa>>

\* the word is let go
IsaDone ==
    /\ isa.phase = "word"
    /\ ires = NoIsaCall
    /\ isa' = NoWord
    /\ UNCHANGED <<coreVars, miscVars, registerVars, decoderVars, ires>>

IsaNext ==
    \/ IsaBegin \/ IsaWriteField \/ IsaFetch
    \/ IsaReadFields \/ IsaReadValue \/ IsaMatch \/ IsaExtract
    \/ IsaReturn \/ IsaDone

SpecISA == IsaInit /\ [][IsaNext]_vars

(***************************************************************************)
(* The frozendict: constructed from a dict, then used through the          *)
(* interface of dict in any order.                                         *)
(***************************************************************************)
\* the keys and the values of the dicts
DictKeys == {"x", "y"}

DictValues == 0 .. MaxDictValue

\* the dicts a frozendict is constructed from: no key twice
Dicts ==
    {items \in UNION {[1 .. n -> [k : DictKeys, v : DictValues]] :
                        n \in 0 .. Cardinality(DictKeys)} :
        \A i, j \in 1 .. Len(items) : items[i].k = items[j].k => i = j}

\* the record of a call
DictCall(op, key, value, out) ==
    [op |-> op, key |-> key, value |-> value, err |-> out.err,
     result |-> out.result, hash |-> {}]

FrozenInit == Unset

\* fd = frozendict(d)
NewFrozendict ==
    /\ ~fd.made
    /\ \E items \in Dicts :
        fd' = [made |-> TRUE, items |-> items, initial |-> items]
    /\ UNCHANGED <<coreVars, mres, legacyVars, countVars, registerVars, decoderVars, isaVars, fdres>>

\* fd[key] = value
FrozenSetItem ==
    /\ fd.made
    /\ \E key \in DictKeys, value \in DictValues :
        LET out == frozendict_setitem(fd.items, key, value)
        IN  /\ fd' = [fd EXCEPT !.items = out.items]
            /\ fdres' = DictCall("setitem", key, value, out)
    /\ UNCHANGED <<coreVars, mres, legacyVars, countVars, registerVars, decoderVars, isaVars>>

\* hash(fd)
FrozenHash ==
    /\ fd.made
    /\ fdres' = [NoDictCall EXCEPT !.op = "hash",
                                   !.hash = frozendict_hash(fd.items)]
    /\ UNCHANGED <<coreVars, mres, legacyVars, countVars, registerVars, decoderVars, isaVars, fd>>

\* del fd[key]
FrozenDelItem ==
    /\ fd.made
    /\ \E key \in DictKeys :
        LET out == dict_delitem(fd.items, key)
        IN  /\ fd' = [fd EXCEPT !.items = out.items]
            /\ fdres' = DictCall("delitem", key, 0, out)
    /\ UNCHANGED <<coreVars, mres, legacyVars, countVars, registerVars, decoderVars, isaVars>>

\* fd.update({key: value})
FrozenUpdate ==
    /\ fd.made
    /\ \E key \in DictKeys, value \in DictValues :
        LET out == dict_update(fd.items, key, value)
        IN  /\ fd' = [fd EXCEPT !.items = out.items]
            /\ fdres' = DictCall("update", key, value, out)
    /\ UNCHANGED <<coreVars, mres, legacyVars, countVars, registerVars, decoderVars, isaVars>>

\* fd.pop(key)
FrozenPop ==
    /\ fd.made
    /\ \E key \in DictKeys :
        LET out == dict_pop(fd.items, key)
        IN  /\ fd' = [fd EXCEPT !.items = out.items]
            /\ fdres' = DictCall("pop", key, 0, out)
    /\ UNCHANGED <<coreVars, mres, legacyVars, countVars, registerVars, decoderVars, isaVars>>

\* fd.setdefault(key, value)
FrozenSetDefault ==
    /\ fd.made
    /\ \E key \in DictKeys, value \in DictValues :
        LET out == dict_setdefault(fd.items, key, value)
        IN  /\ fd' = [fd EXCEPT !.items = out.items]
            /\ fdres' = DictCall("setdefault", key, value, out)
    /\ UNCHANGED <<coreVars, mres, legacyVars, countVars, registerVars, decoderVars, isaVars>>

\* fd.clear()
FrozenClear ==
    /\ fd.made
    /\ LET out == dict_clear(fd.items)
       IN  /\ fd' = [fd EXCEPT !.items = out.items]
           /\ fdres' = DictCall("clear", "", 0, out)
    /\ UNCHANGED <<coreVars, mres, legacyVars, countVars, registerVars, decoderVars, isaVars>>

FrozenNext ==
    \/ NewFrozendict \/ FrozenSetItem \/ FrozenHash
    \/ FrozenDelItem \/ FrozenUpdate \/ FrozenPop
    \/ FrozenSetDefault \/ FrozenClear

SpecFrozendict == FrozenInit /\ [][FrozenNext]_vars

(***************************************************************************)
(* The legacy Field: constructed, set from words, released.                *)
(***************************************************************************)
\* the bounds given to the legacy Field
LegacyBounds == (0 .. MaxBit) \cup {XLEN - 1}

LegacyInit == Unset

\* legacy = Field(lsb, msb)
NewLegacyField ==
    /\ ~legacy.made
    /\ \E lsb \in LegacyBounds, msb \in LegacyBounds :
        legacy' = LegacyField_init(lsb, msb)
    /\ UNCHANGED <<coreVars, mres, frozenVars, countVars, registerVars, decoderVars, isaVars>>

\* legacy.set(word)
LegacySet ==
    /\ legacy.made
    /\ \E word \in AnyInts :
        legacy' = LegacyField_set(legacy, word)
    /\ UNCHANGED <<coreVars, mres, frozenVars, countVars, registerVars, decoderVars, isaVars>>

\* the caller lets go of the Field
LegacyDrop ==
    /\ legacy.made
    /\ legacy' = NoLegacyField
    /\ UNCHANGED <<coreVars, mres, frozenVars, countVars, registerVars, decoderVars, isaVars>>

LegacyNext == NewLegacyField \/ LegacySet \/ LegacyDrop

SpecLegacyField == LegacyInit /\ [][LegacyNext]_vars

(***************************************************************************)
(* bit_count(i): the call, the iterations of the loop, the return.         *)
(***************************************************************************)
CountInit == Unset

\* bit_count(i) is called: count = 0
BitCountCall ==
    /\ bc.pc = "idle"
    /\ \E i \in AnyInts :
        bc' = [pc |-> "loop", arg |-> i, i |-> i, count |-> 0]
    /\ UNCHANGED <<coreVars, mres, frozenVars, legacyVars, registerVars, decoderVars, isaVars>>

\* while i != 0: one iteration
BitCountIterate ==
    /\ bc.pc = "loop"
    /\ bc.i # {}
    /\ bc' = bit_count_iteration(bc)
    /\ UNCHANGED <<coreVars, mres, frozenVars, legacyVars, registerVars, decoderVars, isaVars>>

\* i == 0: return count
BitCountReturn ==
    /\ bc.pc = "loop"
    /\ bc.i = {}
    /\ bc' = [bc EXCEPT !.pc = "returned"]
    /\ UNCHANGED <<coreVars, mres, frozenVars, legacyVars, registerVars, decoderVars, isaVars>>

\* the caller has used the count
BitCountDone ==
    /\ bc.pc = "returned"
    /\ bc' = NoCount
    /\ UNCHANGED <<coreVars, mres, frozenVars, legacyVars, registerVars, decoderVars, isaVars>>

CountNext ==
    BitCountCall \/ BitCountIterate \/ BitCountReturn \/ BitCountDone

SpecBitCount == CountInit /\ [][CountNext]_vars

\* the interpreter does not stop inside a call of bit_count
SpecBitCountFair ==
    SpecBitCount /\ WF_vars(BitCountIterate) /\ WF_vars(BitCountReturn)

(***************************************************************************)
(* Properties of Slice.                                                    *)
(***************************************************************************)
\* the bit positions start..stop of a slice
SliceBits(s) == s.start .. s.stop

\* 0 <= value < 2^length
Fits(value, length) == value \subseteq 0 .. (length - 1)

\* C9: Slice.set(value, destination), for a value that fits the slice and any
\* non-negative destination, is the destination with the bits start..stop
\* cleared and replaced by the bits of value; Slice.set(0, d) has no bit of
\* the slice, agrees with d on every other bit, and applying it again to its
\* own result changes nothing.
C9_SliceSetReplaces ==
    (slice.ok /\ sres.op = "set" /\ Fits(sres.value, slice.length)) =>
        /\ sres.result = {b \in sres.arg : b \notin SliceBits(slice)}
                            \cup {b + slice.start : b \in sres.value}
        /\ sres.value = {} =>
              /\ sres.result \cap SliceBits(slice) = {}
              /\ sres.result \ SliceBits(slice) = sres.arg \ SliceBits(slice)
              /\ Slice_set(slice, {}, sres.result) = sres.result

\* C9 witness: a fitting non-zero value is written over set bits of a
\* destination whose highest 1-bit lies above the slice
C9_Witness ==
    /\ slice.ok /\ sres.op = "set"
    /\ sres.value # {} /\ Fits(sres.value, slice.length)
    /\ sres.arg \cap SliceBits(slice) # {}
    /\ \E b \in sres.arg : b > slice.stop
    /\ \E b \in sres.arg : b < slice.start

\* C10: Slice(start, stop) raises exactly when start < 0, stop < 0 or
\* start > stop; otherwise it is constructed with length = stop - start + 1,
\* which is at least 1.
C10_SliceValidation ==
    slice # NoSlice =>
        /\ (~slice.ok) <=> (slice.start < 0 \/ slice.stop < 0 \/ slice.start > slice.stop)
        /\ slice.ok => /\ slice.length = slice.stop - slice.start + 1
                       /\ slice.length >= 1

\* C10 witness: a one-bit slice (start = stop) away from bit 0 is constructed
C10_Witness ==
    slice.ok /\ slice.start = slice.stop /\ slice.start > 0

(***************************************************************************)
(* Properties of Field.                                                    *)
(***************************************************************************)
\* x is a 32-bit word
IsWord(x) == x \subseteq 0 .. (XLEN - 1)

\* C1 as claimed: for every Field, with or without a destination, every value
\* below 2^length and every 32-bit word w, read(write(v, w)) = v.
C1_RoundTripAnyFittingValue ==
    (field.ok /\ fres.op = "write" /\ Fits(fres.value, field.size)
              /\ IsWord(fres.arg)) =>
        Field_read(field, fres.result) = fres.value

\* C1 as amended: read(write(v, w)) = v for every 32-bit word w and every
\* value v below 2^length when the Field has no destination, and every value
\* v whose 1-bits all lie in the destination slice when it has one.
C1_RoundTrip ==
    (field.ok /\ fres.op = "write" /\ IsWord(fres.arg)) =>
        /\ (field.destination = None /\ Fits(fres.value, field.size)) =>
              Field_read(field, fres.result) = fres.value
        /\ (field.destination # None
              /\ fres.value \subseteq SliceBits(field.destination)) =>
              Field_read(field, fres.result) = fres.value

\* C1 witness: a non-zero value placed at a destination above bit 0 is
\* written over a word that has other bits set in the source slice
C1_Witness ==
    /\ field.ok /\ fres.op = "write" /\ IsWord(fres.arg)
    /\ field.destination # None /\ field.destination.start > 0
    /\ field.destination.start # field.source.start
    /\ fres.value # {} /\ fres.value \subseteq SliceBits(field.destination)
    /\ \E b \in SliceBits(field.source) :
          b \in fres.arg /\ b \notin fres.result

\* C7: Field.write(value, destination_word) on a 32-bit destination word, for
\* a value that fits the field (any value when the Field has a destination):
\* outside the source slice the result is the destination word, and inside
\* it bit source.start + i is bit i of the value (bit destination.start + i
\* of the value when the Field has a destination).
C7_WriteFrame ==
    (field.ok /\ fres.op = "write" /\ IsWord(fres.arg)
       /\ (field.destination = None => Fits(fres.value, field.size))) =>
        /\ fres.result \ SliceBits(field.source) = fres.arg \ SliceBits(field.source)
        /\ \A i \in 0 .. (field.size - 1) :
              (field.source.start + i \in fres.result) <=>
                  IF field.destination = None
                  THEN i \in fres.value
                  ELSE field.destination.start + i \in fres.value

\* C7 witness: a Field with a destination writes a value that also has bits
\* outside the destination slice into a word with bits inside and outside
\* the source slice, the top bit of the word among them
C7_Witness ==
    /\ field.ok /\ fres.op = "write" /\ IsWord(fres.arg)
    /\ field.destination # None
    /\ fres.value \cap SliceBits(field.destination) # {}
    /\ fres.value \ SliceBits(field.destination) # {}
    /\ fres.arg \cap SliceBits(field.source) # {}
    /\ XLEN - 1 \in fres.arg \ SliceBits(field.source)

\* C8: Field.read(w) without a destination is the bits source.start ..
\* source.stop of w right-justified, below 2^length; with a destination, bit
\* destination.start + i of the result is bit source.start + i of w for
\* every i in 0..length-1 and every other bit is zero.
C8_ReadExtracts ==
    (field.ok /\ fres.op = "read") =>
        IF field.destination = None
        THEN /\ fres.result = {b - field.source.start :
                                  b \in fres.arg \cap SliceBits(field.source)}
             /\ Fits(fres.result, field.size)
        ELSE /\ \A i \in 0 .. (field.size - 1) :
                   (field.destination.start + i \in fres.result) <=>
                       (field.source.start + i \in fres.arg)
             /\ fres.result \subseteq SliceBits(field.destination)

\* C8 witness: a Field whose destination differs from its source reads a word
\* with bits inside and outside the source slice
C8_Witness ==
    /\ field.ok /\ fres.op = "read"
    /\ field.destination # None
    /\ field.destination.start # field.source.start
    /\ fres.arg \cap SliceBits(field.source) # {}
    /\ fres.arg \ SliceBits(field.source) # {}
    /\ fres.result # {}

(***************************************************************************)
(* Properties of Value.                                                    *)
(***************************************************************************)
\* the source bits of the i-th field of a sequence of fields
SrcBits(fields, i) == SliceBits(fields[i].source)

\* the destination bits of the i-th field (none without a destination)
DstBits(fields, i) ==
    IF fields[i].destination = None THEN {} ELSE SliceBits(fields[i].destination)

\* no two fields share a source bit and no two share a destination bit
PairwiseDisjoint(fields) ==
    \A i, j \in 1 .. Len(fields) :
        i < j => /\ SrcBits(fields, i) \cap SrcBits(fields, j) = {}
                 /\ DstBits(fields, i) \cap DstBits(fields, j) = {}

\* C2 as claimed: for a constructed Value of one field, or of several
\* pairwise-disjoint fields, and every value below 2^(sum of the lengths),
\* read(write(v, 0)) = v.
C2_ValueRoundTripAnyFittingValue ==
    (val.ok /\ PairwiseDisjoint(val.fields) /\ vres.op = "write"
        /\ vres.arg = {} /\ Fits(vres.value, SumSizes(val.fields))) =>
        Value_read(val, vres.result) = vres.value

\* C2 as amended: for a constructed Value of one field, or of several
\* pairwise-disjoint fields, and every value whose 1-bits all lie inside the
\* Value's destination_mask, read(write(v, 0)) = v.
C2_ValueRoundTrip ==
    (val.ok /\ PairwiseDisjoint(val.fields) /\ vres.op = "write"
        /\ vres.arg = {} /\ vres.value \subseteq val.destination_mask) =>
        Value_read(val, vres.result) = vres.value

\* C2 witness: a Value of two disjoint fields, whose destinations leave bit 0
\* out, writes a value with a bit for each field into the zero word
C2_Witness ==
    /\ val.ok /\ Len(val.fields) >= 2 /\ PairwiseDisjoint(val.fields)
    /\ vres.op = "write" /\ vres.arg = {}
    /\ 0 \notin val.destination_mask
    /\ vres.value \subseteq val.destination_mask
    /\ \A i \in 1 .. Len(val.fields) : vres.value \cap DstBits(val.fields, i) # {}
    /\ vres.result # vres.value

\* C3: the construction of a Value from two or more fields fails whenever
\* two of them share a source bit or a destination bit, so that the fields
\* of every constructed Value are pairwise disjoint in both.
C3_OverlapAlwaysRejected ==
    (val # NoValue /\ Len(val.fields) >= 2 /\ val.ok) =>
        PairwiseDisjoint(val.fields)

\* C4 as claimed: a Value of two fields (each with a destination) that have
\* the same source slice, or the same destination slice, fails with the
\* overlapping-bits error.
C4_IdenticalSlicesOverlapError ==
    (val # NoValue /\ Len(val.fields) = 2
        /\ val.fields[1].destination # None /\ val.fields[2].destination # None
        /\ (val.fields[1].source = val.fields[2].source
             \/ val.fields[1].destination = val.fields[2].destination)) =>
        (~val.ok /\ val.err \in {"overlapping_source", "overlapping_destination"})

\* C4 as amended: a Value of two fields that have the same source slice, or
\* both a destination and the same destination slice, is never constructed:
\* the construction raises, and the error is the overlapping-bits one,
\* naming the second field, whenever both fields have a destination and
\* their lengths sum to at most 32.
C4_IdenticalSlicesRejected ==
    (val # NoValue /\ Len(val.fields) = 2
        /\ (val.fields[1].source = val.fields[2].source
             \/ (val.fields[1].destination # None
                 /\ val.fields[1].destination = val.fields[2].destination))) =>
        /\ ~val.ok
        /\ (val.fields[1].destination # None /\ val.fields[2].destination # None
              /\ val.fields[1].size + val.fields[2].size <= XLEN) =>
              /\ val.err \in {"overlapping_source", "overlapping_destination"}
              /\ val.at = 2
              /\ val.err = "overlapping_source" <=>
                      val.fields[1].source = val.fields[2].source

\* C4 witness: two fields with different sources and the same destination
\* are refused for their destination bits
C4_Witness ==
    /\ Len(val.fields) = 2
    /\ val.fields[1].source # val.fields[2].source
    /\ val.fields[1].destination # None
    /\ val.fields[1].destination = val.fields[2].destination
    /\ ~val.ok /\ val.err = "overlapping_destination"

\* the bitwise OR of f.write(v, d) over the fields f of a Value
RECURSIVE OrOfFieldWrites(_, _, _)
OrOfFieldWrites(fields, v, d) ==
    IF fields = <<>> THEN {}
    ELSE Or(Field_write(Head(fields), v, d), OrOfFieldWrites(Tail(fields), v, d))

\* C5: Value.write(v, d) is the bitwise OR, over the fields f of the Value,
\* of f.write(v, d) on the original 32-bit word d; for a Value of one field it
\* is f.write(v, d), the bits of d in the source slice replaced by those of v.
C5_WriteIsOrOfFieldWrites ==
    (val.ok /\ vres.op = "write" /\ IsWord(vres.arg)) =>
        vres.result = OrOfFieldWrites(val.fields, vres.value, vres.arg)

\* the bitwise OR of f.read(w) over the fields f of a Value
RECURSIVE OrOfFieldReads(_, _)
OrOfFieldReads(fields, w) ==
    IF fields = <<>> THEN {}
    ELSE Or(Field_read(Head(fields), w), OrOfFieldReads(Tail(fields), w))

\* C6: Value.read(w) is the bitwise OR of f.read(w) over the fields f of the
\* Value; it has 1-bits only inside the Value's destination_mask, and it is
\* the same as Value.read(w & source_mask).
C6_ReadIsOrOfFieldReads ==
    (val.ok /\ vres.op = "read") =>
        /\ vres.result = OrOfFieldReads(val.fields, vres.arg)
        /\ vres.result \subseteq val.destination_mask
        /\ vres.result = Value_read(val, And(vres.arg, val.source_mask))

\* C6 witness: a Value of several fields reads a word that has bits of
\* every field and a bit of none, and moves at least one bit
C6_Witness ==
    /\ val.ok /\ Len(val.fields) >= 2 /\ vres.op = "read"
    /\ \A i \in 1 .. Len(val.fields) : vres.arg \cap SrcBits(val.fields, i) # {}
    /\ vres.arg \ val.source_mask # {}
    /\ vres.result # And(vres.arg, val.source_mask)

OutOfWord(s) ==
    s.start < 0 \/ s.stop < 0 \/ s.start >= XLEN \/ s.stop >= XLEN

C14_MaskCorrect ==
    /\ slice.ok =>
          /\ slice.mask = slice.start .. (slice.start + slice.length - 1)
          /\ slice.mask = {b + slice.start : b \in 0 .. (slice.length - 1)}
    /\ mres.op = "mask" =>
          /\ mres.result = mres.lsb .. (mres.lsb + mres.length - 1)
          /\ mres.length = 0 => mres.result = {}

\* C14 witness: mask is called with length 0 at a position above bit 0
C14_Witness ==
    mres.op = "mask" /\ mres.length = 0 /\ mres.lsb > 0 /\ mres.result = {}

\* C12: the construction of a Value from an empty sequence of Fields raises;
\* so does the construction from more than one Field when one of them has no
\* destination; a single Field without a destination is accepted.
C12_FieldsRequired ==
    val # NoValue =>
        /\ val.fields = <<>> => ~val.ok
        /\ (Len(val.fields) > 1
              /\ \E i \in 1 .. Len(val.fields) : val.fields[i].destination = None)
              => ~val.ok
        /\ (Len(val.fields) = 1 /\ val.fields[1].destination = None) =>
              /\ val.ok
              /\ val.source_mask = val.fields[1].source_mask

\* C12 witness: two Fields that overlap nowhere, the second without a
\* destination, are refused for the missing destination
C12_Witness ==
    /\ ~val.ok /\ val.err = "missing_destination" /\ val.at = 2
    /\ Len(val.fields) = 2
    /\ val.fields[1].destination # None
    /\ val.fields[1].source_mask \cap val.fields[2].source_mask = {}

(***************************************************************************)
(* Properties of the register file.                                        *)
(***************************************************************************)
\* C19: whatever has been stored, to x0 or to any other register, a load of
\* x0 returns 0; and a store to x0 raises nothing, whatever the value.
C19_ZeroRegister ==
    /\ (rres.op = "load" /\ rres.register = "x0") =>
          (rres.err = "none" /\ rres.result = 0)
    /\ (rres.op = "store" /\ rres.register = "x0") => rres.err = "none"

\* C19 witness: x0 is loaded while the file holds a non-zero value for it
C19_Witness ==
    /\ rres.op = "load" /\ rres.register = "x0" /\ rres.result = 0
    /\ rf.file[rf.registers["x0"] + 1] # 0

\* C20: a store to a register of the file returns the value given to the
\* most recent earlier store to the same register, or 0 if there was none;
\* x0 is no exception.
C20_StoreReturnsPrevious ==
    [][(rres'.op = "store" /\ rres'.seq # rres.seq /\ rf.made
        /\ rres'.register \in DOMAIN rf.registers) =>
            /\ rres'.err = "none"
            /\ rres'.result = last[rres'.register]
            /\ last'[rres'.register] = rres'.value]_vars

\* C20 witness: a second store to x0 returns the non-zero value of the first
C20_Witness ==
    /\ rres.op = "store" /\ rres.register = "x0"
    /\ rres.result = 2 /\ rres.value = 9
    /\ last["x0"] = 9

(***************************************************************************)
(* Properties of the legacy Decoder.                                       *)
(***************************************************************************)
\* the opcodes of the classes listed with the decoder
RegisteredOpcodes ==
    {decoder.instruction_classes[i].opcode :
        i \in 1 .. Len(decoder.instruction_classes)}

\* C18: decode returns an instruction only if the low six bits of the word
\* are the opcode of a registered class, and the instruction is of such a
\* class; when they are the opcode of no registered class, decode ends in the
\* error of the failed lookup and returns nothing; and the table of the
\* decoder is after any call the table its construction built.
C18_DecodeByOpcode ==
    dres.op = "decode" =>
        /\ dres.returned =>
              /\ And(dres.word, 0 .. 5) \in RegisteredOpcodes
              /\ decoder.instruction_classes[dres.cls].opcode = And(dres.word, 0 .. 5)
              /\ dres.value = dres.word
        /\ And(dres.word, 0 .. 5) \notin RegisteredOpcodes =>
              (dres.err = "KeyError" /\ ~dres.returned)
        /\ decoder = Decoder_init(decoder.instruction_classes)

\* C18 witness: classes are registered, and a word whose opcode bits are the
\* opcode of none of them ends in the lookup error
C18_Witness ==
    /\ dres.op = "decode" /\ dres.err = "KeyError"
    /\ Len(decoder.instruction_classes) = 2
    /\ \E i \in 1 .. 2 : decoder.instruction_classes[i].decodes
    /\ dres.word # {}

(***************************************************************************)
(* Properties of the RV32I tables.                                         *)
(***************************************************************************)
\* ADDI x5, x0, 5: the values of opcode, rd, funct3, rs1 and imm
AddiValues ==
    <<Int2Bits(\b0010011), Int2Bits(5), Int2Bits(0), Int2Bits(0), Int2Bits(5)>>

\* the word 0x00500293
AddiWord == Int2Bits(\h00500293)

\* C15: the five Fields of format I, written with opcode 0b0010011, rd 5,
\* funct3 0, rs1 0 and imm 5 into a zero word and or-ed together, give
\* 0x00500293; and read from 0x00500293 they give those five values back.
C15_AddiEndToEnd ==
    /\ (isa.phase = "word" /\ isa.fmt = "I" /\ isa.vals = AddiValues) =>
          isa.word = AddiWord
    /\ (ires.op = "read" /\ isa.fmt = "I" /\ isa.word = AddiWord) =>
          ires.vals = AddiValues

\* C15 witness: the word composed of the five values is 0x00500293 and its
\* fields have been read back
C15_Witness ==
    /\ isa.phase = "word" /\ isa.fmt = "I" /\ isa.vals = AddiValues
    /\ isa.word = {0, 1, 4, 7, 9, 20, 22}
    /\ ires.op = "read" /\ ires.vals[5] = {0, 2}

\* C16: 0x00500293 matches the constants of ADDI and of no other
\* pseudoinstruction of OP-IMM; and no word matches the constants of more
\* than one pseudoinstruction of its operation.
C16_DecodingResolvesUniquely ==
    ires.op = "match" =>
        /\ isa.word = AddiWord => ires.matches = {"ADDI"}
        /\ Cardinality(ires.matches) <= 1

\* the bits of a word that the imm Fields of format B read
BImmBits == (7 .. 11) \cup (25 .. 31)

\* C17 as claimed: the Value of the four imm Fields of format B is
\* constructed; a word that has of these bits only bit 31 reads as offset 0;
\* and a word with bit 31 = 0, bits 30-25 = 0b011111, bits 11-8 = 0b1111 and
\* bit 7 = 1 reads as 3070.
C17_BranchOffsetZero ==
    (ires.op = "value" /\ isa.fmt = "B" /\ ires.name = "imm") =>
        /\ ires.ok
        /\ isa.word \cap BImmBits = {31} => ires.value = Int2Bits(0)
        /\ isa.word \cap BImmBits = (7 .. 11) \cup (25 .. 29) =>
              ires.value = Int2Bits(3070)

\* C17 as amended: the Value of the four imm Fields of format B is
\* constructed; a word that has of these bits only bit 31 reads as 4096,
\* offset bit 12 alone; and a word with bit 31 = 0, bits 30-25 = 0b011111,
\* bits 11-8 = 0b1111 and bit 7 = 1 reads as 3070.
C17_BranchOffset ==
    (ires.op = "value" /\ isa.fmt = "B" /\ ires.name = "imm") =>
        /\ ires.ok
        /\ isa.word \cap BImmBits = {31} => ires.value = Int2Bits(4096)
        /\ isa.word \cap BImmBits = (7 .. 11) \cup (25 .. 29) =>
              ires.value = Int2Bits(3070)

\* C17 witness: a branch word with bit 31 alone of the imm bits has been
\* read as 4096
C17_Witness ==
    /\ ires.op = "value" /\ isa.fmt = "B" /\ ires.name = "imm" /\ ires.ok
    /\ isa.word = {0, 1, 5, 6, 31}
    /\ ires.value = {12}

\* the value the file holds for a register
Held(r, register) == r.file[r.registers[register] + 1]

\* C21: a load of a register other than x0 returns the value of the most
\* recent store to it, or 0 if there was none; a store to a register changes
\* the value held for no other register; and a load changes the value held
\* for no register.
C21_LoadReturnsLastStore ==
    [][(rf.made /\ rres'.seq # rres.seq
        /\ rres'.register \in DOMAIN rf.registers) =>
            /\ (rres'.op = "load" /\ rres'.register # "x0") =>
                  (rres'.err = "none" /\ rres'.result = last[rres'.register])
            /\ rres'.op = "load" => rf' = rf
            /\ rres'.op = "store" =>
                  /\ Held(rf', rres'.register) = rres'.value
                  /\ \A other \in DOMAIN rf.registers \ {rres'.register} :
                        Held(rf', other) = Held(rf, other)
            /\ \A r \in DOMAIN rf'.registers : Held(rf', r) = last'[r]]_vars

\* C21 witness: pc is loaded and returns the non-zero value stored to it,
\* while other registers hold other values
C21_Witness ==
    /\ rres.op = "load" /\ rres.register = "pc" /\ rres.result = 9
    /\ rf.xlen = 1 /\ Held(rf, "x1") = 2 /\ Held(rf, "x0") = 1

\* C25: RegisterFile(xlen = n) has n + 2 register names, x0 at position 0,
\* xk at position k for 1 <= k <= n and pc at the last position, n + 1, each
\* name at a position of its own; every register holds 0 after construction;
\* and no load or store changes the positions or the length of the file.
C25_RegisterNaming ==
    rf.made =>
        /\ Cardinality(DOMAIN rf.registers) = rf.xlen + 2
        /\ DOMAIN rf.registers =
              {"x0", "pc"} \cup {XName(k) : k \in 1 .. rf.xlen}
        /\ rf.registers["x0"] = 0
        /\ \A k \in 1 .. rf.xlen : rf.registers[XName(k)] = k
        /\ rf.registers["pc"] = rf.xlen + 1
        /\ rf.registers["pc"] = Len(rf.file) - 1
        /\ \A r1, r2 \in DOMAIN rf.registers :
              rf.registers[r1] = rf.registers[r2] => r1 = r2
        /\ rres.op = "none" => \A p \in 1 .. Len(rf.file) : rf.file[p] = 0
        /\ Len(rf.file) = rf.xlen + 2

\* C25 witness: a file of one general purpose register, after stores that
\* left a value in every position, has x1 at 1 and pc at 2
C25_Witness ==
    /\ rf.made /\ rf.xlen = 1 /\ rres.op = "load"
    /\ rf.file = <<9, 2, 1>>
    /\ rf.registers["x1"] = 1 /\ rf.registers["pc"] = 2

(***************************************************************************)
(* Properties of the helpers of misc.py and of the legacy Field.           *)
(***************************************************************************)
\* C26: a frozendict has, after any calls of the dict interface (item
\* assignment, item deletion, update, pop, setdefault, clear), the keys and
\* the values it was constructed with; item assignment raises
\* NotImplementedError; and its hash is a function of the set of its keys.
C26_FrozendictImmutable ==
    fd.made =>
        /\ fd.items = fd.initial
        /\ fdres.op = "setitem" => fdres.err = "NotImplementedError"
        /\ fdres.op = "hash" => fdres.hash = dict_keys(fd.initial)

\* C27: for 0 <= lsb <= msb the mask the legacy Field(lsb, msb) builds in its
\* loop is ((1 << (msb - lsb + 1)) - 1) << lsb, the mask of Slice(lsb, msb);
\* and the value stored by set(word) is Slice(lsb, msb).get(word), the bits
\* lsb..msb of the word moved down to bit 0.
C27_LegacyFieldAgreesWithSlice ==
    (legacy.made /\ legacy.lsb <= legacy.msb) =>
        /\ legacy.mask = mask(legacy.lsb, legacy.msb - legacy.lsb + 1)
        /\ legacy.mask = Slice_post_init(legacy.lsb, legacy.msb).mask
        /\ legacy.mask = legacy.lsb .. legacy.msb
        /\ legacy.has_value =>
              /\ legacy.value =
                    Slice_get(Slice_post_init(legacy.lsb, legacy.msb), legacy.word)
              /\ legacy.value =
                    {b - legacy.lsb : b \in legacy.word \cap (legacy.lsb .. legacy.msb)}

\* C27 witness: a Field of several bits above bit 0 has been set from a word
\* with bits inside and outside of it
C27_Witness ==
    /\ legacy.made /\ legacy.has_value
    /\ legacy.lsb = 1 /\ legacy.msb = 3
    /\ legacy.word = {0, 1, 3, 31}
    /\ legacy.value = {0, 2}

\* i is a smaller integer than j
Less(i, j) == i # j /\ HighBit((i \ j) \cup (j \ i)) \in j

\* C28: every call of bit_count returns, with the number of 1-bits of its
\* argument (0 for 0), and every iteration of the loop makes i smaller.
C28_BitCountTerminates ==
    /\ [](bc.pc = "returned" =>
            (bc.count = Cardinality(bc.arg) /\ bc.count = bit_count(bc.arg)))
    /\ [][(bc.pc = "loop" /\ bc'.pc = "loop") => Less(bc'.i, bc.i)]_vars
    /\ (bc.pc = "loop" ~> bc.pc = "returned")

\* C28 witness: bit_count has returned 3 for an argument with three 1-bits,
\* one of them high
C28_Witness ==
    /\ bc.pc = "returned" /\ bc.count = 3
    /\ bc.arg = {0, 2, 31}

(***************************************************************************)
(* Properties of the masks of a Value and of the tables of formats and     *)
(* operations.                                                             *)
(***************************************************************************)
\* the or of the source masks, and of the destination masks, of the fields
RECURSIVE OrOfSourceMasks(_)
OrOfSourceMasks(fields) ==
    IF fields = <<>> THEN {}
    ELSE Head(fields).source_mask \cup OrOfSourceMasks(Tail(fields))

RECURSIVE OrOfDestinationMasks(_)
OrOfDestinationMasks(fields) ==
    IF fields = <<>> THEN {}
    ELSE Head(fields).destination_mask \cup OrOfDestinationMasks(Tail(fields))

\* C22: the source_mask of a constructed Value is the or of the source masks
\* of its Fields, and its destination_mask the or of their destination
\* masks, or (1 << length) - 1 for a single Field without a destination; and
\* the two masks have the same number of 1-bits.
C22_ValueMasks ==
    val.ok =>
        /\ val.source_mask = OrOfSourceMasks(val.fields)
        /\ val.destination_mask =
              IF Len(val.fields) = 1 /\ val.fields[1].destination = None
              THEN 0 .. (val.fields[1].source.length - 1)
              ELSE OrOfDestinationMasks(val.fields)
        /\ Cardinality(val.source_mask) = Cardinality(val.destination_mask)

\* the slices, given by their bounds, are pairwise disjoint and cover
\* exactly the bits 0..31
Partition(bounds) ==
    /\ \A i, j \in 1 .. Len(bounds) :
          i < j => (bounds[i][1] .. bounds[i][2]) \cap (bounds[j][1] .. bounds[j][2]) = {}
    /\ UNION {bounds[i][1] .. bounds[i][2] : i \in 1 .. Len(bounds)} = 0 .. (XLEN - 1)

\* C23: in the format at hand, one of R, I, S, B, U and J, the source
\* slices of the Fields are pairwise disjoint and cover exactly bits 0..31,
\* in the table of rv32i.py and in the legacy classes; the opcode Field is
\* the first, on bits 0..6; and the destination slices of the Fields named
\* "imm" are pairwise disjoint.
C23_FormatsPartitionWord ==
    isa.phase # "idle" =>
        LET fields == formats[isa.fmt]
            legacy_fields == LegacyFormats[isa.fmt]
        IN  /\ \A i \in 1 .. Len(fields) : fields[i].f.ok
            /\ Partition([i \in 1 .. Len(fields) |->
                             <<fields[i].f.source.start, fields[i].f.source.stop>>])
            /\ Partition([i \in 1 .. Len(legacy_fields) |->
                             <<legacy_fields[i].lsb, legacy_fields[i].msb>>])
            /\ fields[1].name = "opcode"
            /\ fields[1].f.source_mask = 0 .. 6
            /\ legacy_fields[1].mask = 0 .. 6
            /\ \A i \in 2 .. Len(fields) : fields[i].name # "opcode"
            /\ \A i, j \in 1 .. Len(fields) :
                  (i < j /\ fields[i].name = "imm" /\ fields[j].name = "imm") =>
                      /\ fields[i].f.destination # None
                      /\ fields[j].f.destination # None
                      /\ fields[i].f.destination_mask
                            \cap fields[j].f.destination_mask = {}
            /\ ires.op = "read" =>
                  UNION {Shl(IF fields[i].f.destination = None THEN ires.vals[i]
                             ELSE Shr(ires.vals[i], fields[i].f.destination.start),
                             fields[i].f.source.start) :
                         i \in 1 .. Len(fields)} = isa.word \cap (0 .. (XLEN - 1))

\* C23 witness: the fields of format J, the one with four imm Fields, have
\* been read from a word with bits in several of them
C23_Witness ==
    /\ isa.phase = "word" /\ isa.fmt = "J" /\ ires.op = "read"
    /\ isa.word = {0, 1, 5, 6, 7, 8, 9, 10, 11, 12, 25, 26, 27, 28, 29}

\* C24: no two of the eleven operations have the same opcode bits under
\* word & 0x3f, so that the opcode bits of a word are those of at most one
\* operation.
C24_OpcodesUniqueInDecodeWidth ==
    /\ Cardinality(operations) = 11
    /\ ires.op = "extract" => Cardinality(ires.opnames) <= 1

====
